---- MODULE Spec2Model ----
(***************************************************************************)
(* Model of backend/server.py: the "mystery" reveal service.               *)
(*                                                                         *)
(* Two HTTP handlers, get_user_state (GET /api/user/{device_id}) and       *)
(* reveal_sentence (POST /api/reveal), run as asyncio coroutines over one  *)
(* MongoDB collection, db.mystery_users.  A coroutine runs without         *)
(* interruption between two awaits, and every await is a store round       *)
(* trip, so a handler is a sequence of atomic steps, one per store         *)
(* operation plus the synchronous code that follows it:                    *)
(*                                                                         *)
(*   find_one          -> FindOne                                          *)
(*   insert_one        -> InsertOne                                        *)
(*   the checks, which read the clock (datetime.utcnow())                  *)
(*                     -> StatusRespond (get_user_state)                   *)
(*                     -> RevealDecide  (reveal_sentence)                  *)
(*   update_one and the return of the RevealResponse -> RevealUpdate       *)
(*                                                                         *)
(* Steps of different requests interleave freely, and the clock advances   *)
(* between any two steps.                                                  *)
(*                                                                         *)
(* Time is counted in ticks of 1/TicksPerSecond second, so that the        *)
(* truncation int(total_seconds()) is visible.  The fields id, created_at  *)
(* and updated_at of UserState are written but never read by a handler     *)
(* and are left out of the records.  In reveal_sentence the two reads of   *)
(* the clock (lines 161 and 176) have no await between them and are one    *)
(* instant.                                                                *)
(***************************************************************************)
EXTENDS Integers, Sequences, FiniteSets, TLC

(* ------------------------------ bounds -------------------------------- *)

\* Concurrent requests in flight (request slots, reused once a request ends).
NumProcs == 2

\* Clock resolution: ticks per second.
TicksPerSecond == 2

\* The clock is sampled within Window ticks of every multiple of 24 hours.
Window == 1

\* The clock stops this many 24-hour periods (plus Window ticks) after the
\* service has started.
Horizon == 1

(* ----------------------------- constants ------------------------------ *)

\* current_day >= 10
TotalDays == 10

\* last_reveal_time: Optional[datetime] = None
None == -1

Devices == {"d1"}

\* With a second device, whose requests SpecTwo adds.
AllDevices == Devices \cup {"d2"}

Procs == 1..NumProcs

\* timedelta(hours=24), in ticks
Cooldown == 24 * 3600 * TicksPerSecond

\* (sentence_before_red, red_word, sentence_after_red)
SENTENCE_SEQUENCE ==
    << <<"Nothing is random when you search for", "TRUTH", ".">>,
       <<"Silence doesn't hide answers, it", "REVEALS", "them.">>,
       <<"Everything shows", "ITSELF", "eventually.">>,
       <<"Understanding comes", "ONLY", "after patience.">>,
       <<"Some things speak", "TO", "those who listen.">>,
       <<"The message is meant", "THOSE", "who stay.">>,
       <<"Not everyone is prepared", "WHO", "looks deeper.">>,
       <<"Clarity arrives", "WAIT", "is respected.">>,
       <<"Answers belong", "FOR", "the persistent.">>,
       <<"Meaning appears", "PATIENTLY", ".">> >>

(* ------------------------------- state -------------------------------- *)

VARIABLES
    mystery_users,  \* the collection: documents in natural (insertion) order
    clock,          \* datetime.utcnow(), in ticks
    boot,           \* the clock when the service started
    proc,           \* per request slot: the coroutine's position and locals
    log,            \* per device: the RevealResponses returned so far, in order
    issue           \* per request slot: what held when its request was issued

vars == <<mystery_users, clock, boot, proc, log, issue>>

\* A new record that already counts one day.
UserStateDayOne(device_id) ==
    [device_id |-> device_id, current_day |-> 1, last_reveal_time |-> None]

\* UserState(device_id=device_id).dict()
UserState(device_id) ==
    [device_id |-> device_id, current_day |-> 0, last_reveal_time |-> None]

NoResponse == [kind |-> "none"]

Idle == [pc |-> "idle", op |-> "none", device_id |-> "", user |-> << >>,
         now |-> None, resp |-> NoResponse]

InFlight(p) == proc[p].pc \notin {"idle", "done"}

(* --------------------------- store operations ------------------------- *)

Matching(coll, device_id) ==
    {i \in 1..Len(coll) : coll[i].device_id = device_id}

First(S) == CHOOSE i \in S : \A j \in S : i <= j

\* db.mystery_users.find_one({"device_id": device_id}): the first matching
\* document in natural order, or nothing (the empty sequence).
find_one(coll, device_id) ==
    IF Matching(coll, device_id) = {} THEN << >>
    ELSE << coll[First(Matching(coll, device_id))] >>

\* db.mystery_users.insert_one(doc): no unique index is declared on
\* device_id, so the document is always appended.
insert_one(coll, doc) == Append(coll, doc)

\* An update that increments the stored current_day ($inc) instead of
\* setting the value computed from the loaded record.
update_one_inc(coll, device_id, last_reveal_time, current_day) ==
    IF Matching(coll, device_id) = {} THEN coll
    ELSE [coll EXCEPT ![First(Matching(coll, device_id))] =
              [@ EXCEPT !.last_reveal_time = last_reveal_time,
                        !.current_day = @ + 1]]

\* An update whose filter matches every document: it sets the first one.
update_one_any_device(coll, device_id, last_reveal_time, current_day) ==
    IF coll = << >> THEN coll
    ELSE [coll EXCEPT ![1] =
              [@ EXCEPT !.last_reveal_time = last_reveal_time,
                        !.current_day = current_day]]

\* An update that sets current_day and leaves last_reveal_time as it was.
update_one_day_only(coll, device_id, last_reveal_time, current_day) ==
    IF Matching(coll, device_id) = {} THEN coll
    ELSE [coll EXCEPT ![First(Matching(coll, device_id))] =
              [@ EXCEPT !.current_day = current_day]]

\* db.mystery_users.update_one({"device_id": d}, {"$set": {...}}): sets the
\* fields of the first matching document, whatever they hold now.
update_one(coll, device_id, last_reveal_time, current_day) ==
    IF Matching(coll, device_id) = {} THEN coll
    ELSE [coll EXCEPT ![First(Matching(coll, device_id))] =
              [@ EXCEPT !.last_reveal_time = last_reveal_time,
                        !.current_day = current_day]]

(* ---------------------------- pure helpers ---------------------------- *)

\* int((next_available - now).total_seconds()) for next_available > now:
\* int() truncates toward zero.
IntSeconds(ticks) == ticks \div TicksPerSecond

\* last_reveal + timedelta(hours=24)
NextAvailable(last_reveal) == last_reveal + Cooldown

\* A cooldown that still blocks at the boundary instant.
CooldownBlocksAtBoundary(user, now) ==
    /\ user.last_reveal_time # None
    /\ now <= user.last_reveal_time + Cooldown

\* if user.get("last_reveal_time"): ... if now < next_available
CooldownBlocks(user, now) ==
    /\ user.last_reveal_time # None
    /\ now < NextAvailable(user.last_reveal_time)

\* A status view that looks at the cooldown before it looks at completion.
StatusViewCooldownFirst(user, now) ==
    LET current_day == user.current_day
        blocked     == /\ user.last_reveal_time # None
                       /\ now < user.last_reveal_time + Cooldown
        is_complete == ~blocked /\ current_day >= TotalDays
    IN [kind |-> "status",
        device_id |-> user.device_id,
        can_reveal |-> ~is_complete /\ ~blocked,
        seconds_until_available |->
            IF blocked THEN (user.last_reveal_time + Cooldown - now)
                            \div TicksPerSecond
            ELSE 0,
        next_available_time |->
            IF blocked THEN user.last_reveal_time + Cooldown ELSE None,
        current_day |-> current_day,
        is_complete |-> is_complete]

\* get_user_state, lines 100-131
StatusView(user, now) ==
    LET current_day == user.current_day
        is_complete == current_day >= TotalDays
        blocked     == ~is_complete /\ CooldownBlocks(user, now)
    IN [kind |-> "status",
        device_id |-> user.device_id,
        can_reveal |-> ~is_complete /\ ~blocked,
        seconds_until_available |->
            IF blocked THEN IntSeconds(NextAvailable(user.last_reveal_time) - now)
            ELSE 0,
        next_available_time |->
            IF blocked THEN NextAvailable(user.last_reveal_time) ELSE None,
        current_day |-> current_day,
        is_complete |-> is_complete]

\* A decision that looks at the cooldown before it looks at completion.
RevealDecisionCooldownFirst(user, now) ==
    LET current_day == user.current_day IN
    IF CooldownBlocks(user, now)
    THEN [kind |-> "CooldownActive", status_code |-> 403,
          seconds_remaining |->
              IntSeconds(NextAvailable(user.last_reveal_time) - now)]
    ELSE IF current_day >= TotalDays
    THEN [kind |-> "AlreadyComplete", status_code |-> 403,
          detail |-> "All sentences have been revealed."]
    ELSE [kind |-> "Fragment",
          sentence |-> SENTENCE_SEQUENCE[current_day + 1],
          day |-> current_day + 1,
          next_available_time |-> now + Cooldown,
          is_final_day |-> (current_day + 1 >= TotalDays)]

\* reveal_sentence, lines 145-177 and 188-195: one of the two rejections, or
\* the RevealResponse.
RevealDecision(user, now) ==
    LET current_day == user.current_day IN
    IF current_day >= TotalDays
    THEN [kind |-> "AlreadyComplete", status_code |-> 403,
          detail |-> "All sentences have been revealed."]
    ELSE IF CooldownBlocks(user, now)
    THEN [kind |-> "CooldownActive", status_code |-> 403,
          seconds_remaining |->
              IntSeconds(NextAvailable(user.last_reveal_time) - now)]
    ELSE [kind |-> "Fragment",
          sentence |-> SENTENCE_SEQUENCE[current_day + 1],
          day |-> current_day + 1,
          next_available_time |-> now + Cooldown,
          is_final_day |-> (current_day + 1 >= TotalDays)]

\* The device could be given a fragment at instant t by what the store holds.
Eligible(coll, d, t) ==
    \/ find_one(coll, d) = << >>
    \/ /\ find_one(coll, d)[1].current_day < TotalDays
       /\ ~CooldownBlocks(find_one(coll, d)[1], t)

(* ------------------------------ actions ------------------------------- *)

\* user = await db.mystery_users.find_one({"device_id": device_id})
\* first step of both handlers; a slot whose request has been answered takes
\* the next request.  issue notes whether the device was eligible and which
\* requests were in flight.
FindOne(p, op, d) ==
    /\ ~InFlight(p)
    /\ LET user == find_one(mystery_users, d) IN
         proc' = [proc EXCEPT ![p] =
                    [pc |-> IF user = << >> THEN "insert" ELSE "check",
                     op |-> op, device_id |-> d, user |-> user,
                     now |-> None, resp |-> NoResponse]]
    /\ issue' = [q \in Procs |->
                   IF q = p
                   THEN [eligible |-> Eligible(mystery_users, d, clock),
                         overlaps |-> {r \in Procs \ {p} : InFlight(r)}]
                   ELSE [issue[q] EXCEPT !.overlaps = @ \ {p}]]
    /\ UNCHANGED <<mystery_users, clock, boot, log>>

\* if not user: new_user = UserState(...); await insert_one(new_user.dict());
\*              user = new_user.dict()
InsertOne(p) ==
    /\ proc[p].pc = "insert"
    /\ mystery_users' = insert_one(mystery_users, UserState(proc[p].device_id))
    /\ proc' = [proc EXCEPT ![p].pc = "check",
                            ![p].user = << UserState(proc[p].device_id) >>]
    /\ UNCHANGED <<clock, boot, log, issue>>

\* get_user_state, lines 100-131: now = datetime.utcnow(); return the view
StatusRespond(p) ==
    /\ proc[p].pc = "check"
    /\ proc[p].op = "status"
    /\ proc' = [proc EXCEPT ![p].pc = "done",
                            ![p].now = clock,
                            ![p].resp = StatusView(proc[p].user[1], clock)]
    /\ UNCHANGED <<mystery_users, clock, boot, log, issue>>

\* reveal_sentence, lines 145-177: now = datetime.utcnow(); raise the
\* HTTPException, or go on to the update.
RevealDecide(p) ==
    /\ proc[p].pc = "check"
    /\ proc[p].op = "reveal"
    /\ LET r == RevealDecision(proc[p].user[1], clock) IN
         proc' = [proc EXCEPT ![p].pc = IF r.kind = "Fragment" THEN "update"
                                        ELSE "done",
                              ![p].now = clock,
                              ![p].resp = r]
    /\ UNCHANGED <<mystery_users, clock, boot, log, issue>>

\* await db.mystery_users.update_one(...); return RevealResponse(...)
RevealUpdate(p) ==
    /\ proc[p].pc = "update"
    /\ mystery_users' = update_one(mystery_users, proc[p].device_id,
                                   proc[p].now, proc[p].resp.day)
    /\ log' = [log EXCEPT ![proc[p].device_id] = Append(@, proc[p].resp)]
    /\ proc' = [proc EXCEPT ![p].pc = "done"]
    /\ UNCHANGED <<clock, boot, issue>>

MaxClock == boot + Horizon * Cooldown + Window

\* Time passes while requests wait on the store or no request runs.
NearPeriod(t) == (t % Cooldown <= Window) \/ (t % Cooldown >= Cooldown - Window)

Tick ==
    /\ clock + 1 <= MaxClock
    /\ NearPeriod(clock + 1)
    /\ clock' = clock + 1
    /\ UNCHANGED <<mystery_users, boot, proc, log, issue>>

Skip ==
    /\ clock % Cooldown = Window
    /\ clock + Cooldown - 2 * Window <= MaxClock
    /\ clock' = clock + Cooldown - 2 * Window
    /\ UNCHANGED <<mystery_users, boot, proc, log, issue>>

\* The collection outlives the process.  The service starts on what k
\* sequential reveals for a device have left: the i-th was requested at the
\* first instant the cooldown allowed, (i-1) * 24h, and the service starts
\* right after the last of them.
RevealTime(i) == (i - 1) * Cooldown

StoredAfter(d, k) ==
    [device_id |-> d, current_day |-> k,
     last_reveal_time |-> IF k = 0 THEN None ELSE RevealTime(k)]

History(d, k) ==
    [i \in 1..k |-> RevealDecision(StoredAfter(d, i - 1), RevealTime(i))]

Init ==
    \E k \in 0..TotalDays :
        /\ mystery_users = IF k = 0 THEN << >> ELSE << StoredAfter("d1", k) >>
        /\ clock = IF k = 0 THEN 0 ELSE RevealTime(k)
        /\ boot = clock
        /\ proc = [p \in Procs |-> Idle]
        /\ log = [d \in AllDevices |-> IF d = "d1" THEN History(d, k) ELSE << >>]
        /\ issue = [p \in Procs |-> [eligible |-> FALSE, overlaps |-> {}]]

Next ==
    \/ \E p \in Procs, d \in Devices : FindOne(p, "status", d)
    \/ \E p \in Procs, d \in Devices : FindOne(p, "reveal", d)
    \/ \E p \in Procs : InsertOne(p)
    \/ \E p \in Procs : StatusRespond(p)
    \/ \E p \in Procs : RevealDecide(p)
    \/ \E p \in Procs : RevealUpdate(p)
    \/ Tick
    \/ Skip

Spec == Init /\ [][Next]_vars

\* One request at a time, all in the first slot: a request is issued only
\* when the one before it has been answered.
NextSeq ==
    \/ \E d \in Devices : FindOne(1, "status", d)
    \/ \E d \in Devices : FindOne(1, "reveal", d)
    \/ InsertOne(1)
    \/ StatusRespond(1)
    \/ RevealDecide(1)
    \/ RevealUpdate(1)
    \/ Tick
    \/ Skip

SpecSeq == Init /\ [][NextSeq]_vars

\* The store refuses a write: insert_one or update_one raises, no handler
\* catches it, and the request ends with a server error.  Nothing is written.
ServerError == [kind |-> "StoreUnavailable", status_code |-> 500]

InsertFails(p) ==
    /\ proc[p].pc = "insert"
    /\ proc' = [proc EXCEPT ![p].pc = "done", ![p].resp = ServerError]
    /\ UNCHANGED <<mystery_users, clock, boot, log, issue>>

UpdateFails(p) ==
    /\ proc[p].pc = "update"
    /\ proc' = [proc EXCEPT ![p].pc = "done", ![p].resp = ServerError]
    /\ UNCHANGED <<mystery_users, clock, boot, log, issue>>

NextFail ==
    \/ Next
    \/ \E p \in Procs : InsertFails(p)
    \/ \E p \in Procs : UpdateFails(p)

SpecFail == Init /\ [][NextFail]_vars

\* Requests for two devices, interleaved freely, within Window ticks of the
\* instant the service started.
NextTwo ==
    \/ \E p \in Procs, d \in AllDevices : FindOne(p, "status", d)
    \/ \E p \in Procs, d \in AllDevices : FindOne(p, "reveal", d)
    \/ \E p \in Procs : InsertOne(p)
    \/ \E p \in Procs : StatusRespond(p)
    \/ \E p \in Procs : RevealDecide(p)
    \/ \E p \in Procs : RevealUpdate(p)
    \/ Tick

SpecTwo == Init /\ [][NextTwo]_vars

\* The client keeps issuing Reveal requests for d1, every request in flight
\* is served to its end, and time keeps advancing (up to the horizon).
Fairness ==
    /\ SF_vars(\E p \in Procs : FindOne(p, "reveal", "d1"))
    /\ \A p \in Procs : WF_vars(InsertOne(p))
    /\ \A p \in Procs : WF_vars(StatusRespond(p))
    /\ \A p \in Procs : WF_vars(RevealDecide(p))
    /\ \A p \in Procs : WF_vars(RevealUpdate(p))
    /\ WF_vars(Tick)
    /\ WF_vars(Skip)

SpecLive == Init /\ [][Next]_vars /\ Fairness

(* ------------------------------ properties ---------------------------- *)

\* What find_one gives for the device: its persisted record, if any.
Persisted(d) == find_one(mystery_users, d)

PersistedDay(d) == IF Persisted(d) = << >> THEN 0 ELSE Persisted(d)[1].current_day

\* The request in slot p is a Reveal that has been answered.
AnsweredReveal(p) == proc[p].op = "reveal" /\ proc[p].pc = "done"

\* The requests in slots p and q overlapped in time.
Concurrent(p, q) == q \in issue[p].overlaps \/ p \in issue[q].overlaps

\* The instant of a successful reveal, from its response.
RevealedAt(r) == r.next_available_time - Cooldown

\* The ceiling of a duration in whole seconds.
CeilSeconds(ticks) == (ticks + TicksPerSecond - 1) \div TicksPerSecond

\* C1: of two concurrent Reveals for one device, both issued while the device
\* is eligible, exactly one returns a fragment and the other is rejected, and
\* the persisted current_day is one more than the day they found.
C1_ExactlyOneRevealWins ==
    \A p, q \in Procs :
        ( /\ p # q
          /\ AnsweredReveal(p) /\ AnsweredReveal(q)
          /\ proc[p].device_id = proc[q].device_id
          /\ Concurrent(p, q)
          /\ issue[p].eligible /\ issue[q].eligible )
        => /\ (proc[p].resp.kind = "Fragment") # (proc[q].resp.kind = "Fragment")
           /\ {proc[p].resp.kind, proc[q].resp.kind} \cap
                  {"CooldownActive", "AlreadyComplete"} # {}
           /\ PersistedDay(proc[p].device_id) = proc[p].user[1].current_day + 1

\* C2: every change of a record's current_day is an increase by exactly 1.
C2_DayStepsByOne ==
    [][\A i \in 1..Len(mystery_users) :
          \/ mystery_users'[i].current_day = mystery_users[i].current_day
          \/ mystery_users'[i].current_day = mystery_users[i].current_day + 1]_vars

\* C3: the number of fragments returned for a device equals its persisted
\* current_day.
C3_RevealsEqualCurrentDay ==
    \A d \in Devices : Len(log[d]) = PersistedDay(d)

\* C4: two successful Reveals of a device are at least 24 hours apart.
C4_RevealsADayApart ==
    \A d \in Devices : \A i, j \in 1..Len(log[d]) :
        i < j => RevealedAt(log[d][j]) >= RevealedAt(log[d][i]) + Cooldown

\* C5: a record whose current_day is 10 never changes again, and a Reveal
\* that finds it is rejected with AlreadyComplete, 403, "All sentences have
\* been revealed.".
C5_CompleteIsTerminal ==
    [][/\ \A i \in 1..Len(mystery_users) :
             mystery_users[i].current_day = TotalDays
                 => mystery_users'[i] = mystery_users[i]
       /\ \A p \in Procs :
             ( /\ proc[p].op = "reveal" /\ proc[p].pc = "check"
               /\ proc[p].user[1].current_day = TotalDays
               /\ proc'[p].pc # "check" )
             => /\ proc'[p].pc = "done"
                /\ proc'[p].resp.kind = "AlreadyComplete"
                /\ proc'[p].resp.status_code = 403
                /\ proc'[p].resp.detail = "All sentences have been revealed."]_vars

\* The Reveal in slot p has the fragment of the day after the one it found,
\* and once answered it is in the device's log.
Succeeds(p) ==
    /\ proc[p].resp.kind = "Fragment"
    /\ proc[p].resp.day = proc[p].user[1].current_day + 1
    /\ proc[p].pc = "update" => Persisted(proc[p].device_id) = proc[p].user
    /\ proc[p].pc = "done" =>
           \E n \in 1..Len(log[proc[p].device_id]) :
               log[proc[p].device_id][n] = proc[p].resp

\* C6: with requests served one at a time, a Reveal for a device that is not
\* complete, checked at instant t, succeeds if the device has no prior reveal,
\* is rejected with CooldownActive if t < T + 24h and succeeds if
\* t >= T + 24h, where T is the device's last_reveal_time.
C6_CooldownAloneDecides ==
    \A p \in Procs :
        ( /\ proc[p].op = "reveal"
          /\ proc[p].pc \in {"update", "done"}
          /\ proc[p].user[1].current_day < TotalDays )
        => LET T == proc[p].user[1].last_reveal_time
               t == proc[p].now
           IN /\ T = None => Succeeds(p)
              /\ (T # None /\ t < T + Cooldown) =>
                     /\ proc[p].resp.kind = "CooldownActive"
                     /\ proc[p].pc = "done"
              /\ (T # None /\ t >= T + Cooldown) => Succeeds(p)

\* A Reveal checked at the boundary instant t = T + 24h has succeeded.
C6_Witness ==
    \E p \in Procs :
        /\ AnsweredReveal(p)
        /\ proc[p].user[1].current_day < TotalDays
        /\ proc[p].user[1].last_reveal_time # None
        /\ proc[p].now = proc[p].user[1].last_reveal_time + Cooldown
        /\ proc[p].resp.kind = "Fragment"

\* C7: the seconds_remaining of a CooldownActive rejection is the ceiling of
\* T + 24h - t in whole seconds, so at least 1 while any cooldown remains.
C7_SecondsRemainingIsCeiling ==
    \A p \in Procs :
        (AnsweredReveal(p) /\ proc[p].resp.kind = "CooldownActive")
        => LET remaining == proc[p].user[1].last_reveal_time + Cooldown
                            - proc[p].now
           IN /\ proc[p].resp.seconds_remaining = CeilSeconds(remaining)
              /\ remaining > 0 => proc[p].resp.seconds_remaining >= 1

\* C8: the n-th fragment returned for a device is day n, entry n-1 of the
\* table, final exactly when n = 10; the first is ("Nothing is random when
\* you search for", "TRUTH", "."), the tenth ("Meaning appears", "PATIENTLY",
\* "."), and no fragment is returned twice.
C8_NthRevealIsDayN ==
    \A d \in Devices :
        /\ \A n \in 1..Len(log[d]) :
              /\ n <= TotalDays
              /\ log[d][n].day = n
              /\ log[d][n].sentence = SENTENCE_SEQUENCE[n]
              /\ log[d][n].is_final_day = (n = TotalDays)
        /\ Len(log[d]) >= 1 => log[d][1].sentence =
              <<"Nothing is random when you search for", "TRUTH", ".">>
        /\ Len(log[d]) >= TotalDays => log[d][TotalDays].sentence =
              <<"Meaning appears", "PATIENTLY", ".">>
        /\ \A i, j \in 1..Len(log[d]) :
              i # j => log[d][i].sentence # log[d][j].sentence

\* The step is taken by a GetStatus request.
StatusStep(p) == proc[p].op = "status" \/ proc'[p].op = "status"

\* C9: a step of GetStatus leaves every existing record as it is, and adds
\* at most one record, with current_day = 0 and no last_reveal_time, for a
\* device that has no record.
C9_StatusOnlyCreates ==
    [][\A p \in Procs :
          (proc'[p] # proc[p] /\ StatusStep(p))
          => \/ mystery_users' = mystery_users
             \/ /\ Matching(mystery_users, proc[p].device_id) = {}
                /\ mystery_users' = Append(mystery_users,
                       [device_id |-> proc[p].device_id, current_day |-> 0,
                        last_reveal_time |-> None])]_vars

\* C10: the store holds at most one record per device_id, and a record is
\* created with current_day = 0.
C10_OneRecordPerDevice ==
    [][/\ \A d \in Devices : Cardinality(Matching(mystery_users', d)) <= 1
       /\ Len(mystery_users') > Len(mystery_users) =>
              mystery_users'[Len(mystery_users')].current_day = 0]_vars

\* C11: a Reveal writes its new record only if the device's persisted record
\* is still the one it loaded; otherwise it writes nothing and returns no
\* fragment computed from the stale record.
C11_CommitOnlyIfUnchanged ==
    [][\A p \in Procs :
          (proc[p].pc = "update" /\ proc'[p].pc # "update")
          => \/ Persisted(proc[p].device_id) = proc[p].user
             \/ /\ mystery_users' = mystery_users
                /\ log' = log]_vars

\* The request in slot p is a GetStatus that has been answered.
AnsweredStatus(p) == proc[p].op = "status" /\ proc[p].pc = "done"

\* C12: GetStatus at t for a device with current_day < 10 and
\* last_reveal_time = T reports can_reveal with 0 seconds when t >= T + 24h,
\* and otherwise not can_reveal, seconds_until_available = ceil(T + 24h - t)
\* and next_available_time = T + 24h.
C12_StatusSecondsIsCeiling ==
    \A p \in Procs :
        ( /\ AnsweredStatus(p)
          /\ proc[p].user[1].current_day < TotalDays
          /\ proc[p].user[1].last_reveal_time # None )
        => LET T == proc[p].user[1].last_reveal_time
               t == proc[p].now
               r == proc[p].resp
           IN IF t >= T + Cooldown
              THEN r.can_reveal /\ r.seconds_until_available = 0
              ELSE /\ ~r.can_reveal
                   /\ r.seconds_until_available = CeilSeconds(T + Cooldown - t)
                   /\ r.next_available_time = T + Cooldown

\* C13: GetStatus for a device with current_day >= 10 reports not
\* can_reveal, is_complete, 0 seconds and no next_available_time, however
\* recent the last reveal; for a device with no prior reveal it reports
\* can_reveal, not is_complete and 0 seconds.
C13_StatusCompleteAndFresh ==
    \A p \in Procs :
        AnsweredStatus(p)
        => LET u == proc[p].user[1]
               r == proc[p].resp
           IN /\ u.current_day >= TotalDays =>
                     /\ ~r.can_reveal
                     /\ r.is_complete
                     /\ r.seconds_until_available = 0
                     /\ r.next_available_time = None
              /\ u.last_reveal_time = None =>
                     /\ r.can_reveal
                     /\ ~r.is_complete
                     /\ r.seconds_until_available = 0

\* A GetStatus has answered for a complete device whose last reveal is less
\* than 24 hours old.
C13_Witness ==
    \E p \in Procs :
        /\ AnsweredStatus(p)
        /\ proc[p].user[1].current_day >= TotalDays
        /\ proc[p].now < proc[p].user[1].last_reveal_time + Cooldown
        /\ proc[p].resp.is_complete

C15_RevealTimeIffDayPositive ==
    \A i \in 1..Len(mystery_users) :
        (mystery_users[i].last_reveal_time # None)
            <=> (mystery_users[i].current_day > 0)

\* The store holds a record a request created and a record a Reveal of this
\* run has written.
C15_Witness ==
    /\ \E i \in 1..Len(mystery_users) :
          mystery_users[i] = [device_id |-> "d1", current_day |-> 0,
                              last_reveal_time |-> None]
    /\ \E p \in Procs :
          /\ AnsweredReveal(p)
          /\ proc[p].resp.kind = "Fragment"
          /\ Persisted(proc[p].device_id)[1].last_reveal_time = proc[p].now
          /\ Persisted(proc[p].device_id)[1].current_day = proc[p].resp.day

\* C16: every persisted current_day lies in 0..10, and a Reveal that has
\* indexed the fragment table did so with an index (the current_day it
\* loaded) in 0..9.
C16_DayAndIndexInRange ==
    /\ \A i \in 1..Len(mystery_users) :
          mystery_users[i].current_day \in 0..TotalDays
    /\ \A p \in Procs :
          (proc[p].op = "reveal" /\ proc[p].resp.kind = "Fragment")
          => /\ proc[p].user[1].current_day \in 0..(Len(SENTENCE_SEQUENCE) - 1)
             /\ proc[p].resp.sentence =
                    SENTENCE_SEQUENCE[proc[p].user[1].current_day + 1]

\* A Reveal has indexed the last entry and waits to write while the record
\* already holds current_day = 10.
C16_Witness ==
    \E p \in Procs :
        /\ proc[p].op = "reveal"
        /\ proc[p].pc = "update"
        /\ proc[p].user[1].current_day = Len(SENTENCE_SEQUENCE) - 1
        /\ PersistedDay(proc[p].device_id) = TotalDays

\* C17: a record's current_day and last_reveal_time change only in the step
\* in which a Reveal for the record's own device_id returns a fragment; a
\* Reveal rejected with AlreadyComplete or CooldownActive changes no record.
C17_OnlyOwnSuccessfulReveal ==
    [][/\ \A i \in 1..Len(mystery_users) :
             mystery_users'[i] # mystery_users[i]
             => /\ mystery_users'[i].device_id = mystery_users[i].device_id
                /\ \E p \in Procs :
                      /\ proc[p].op = "reveal"
                      /\ proc[p].pc = "update"
                      /\ proc'[p].pc = "done"
                      /\ proc'[p].resp.kind = "Fragment"
                      /\ proc[p].device_id = mystery_users[i].device_id
       /\ \A p \in Procs :
             ( /\ proc[p].op = "reveal"
               /\ proc'[p] # proc[p]
               /\ proc'[p].resp.kind \in {"AlreadyComplete", "CooldownActive"} )
             => mystery_users' = mystery_users]_vars

\* A Reveal for d1 has been rejected and a Reveal for d2 has returned a
\* fragment, both records being in the store.
C17_Witness ==
    /\ \E p \in Procs :
          /\ AnsweredReveal(p)
          /\ proc[p].device_id = "d1"
          /\ proc[p].resp.kind \in {"AlreadyComplete", "CooldownActive"}
    /\ Len(log["d2"]) >= 1
    /\ Persisted("d1") # << >>
    /\ Persisted("d2") # << >>
    /\ Persisted("d2")[1].current_day = 1

\* The tenth reveal is due within the horizon: the service started right
\* after the ninth.
TenthInReach == boot = RevealTime(TotalDays - 1)

\* Under Fairness the device's current_day reaches 10 when the tenth reveal
\* is within the horizon.
ReachesTen == TenthInReach => <>(PersistedDay("d1") = TotalDays)

\* C18: under Fairness current_day eventually reaches 10 (here: when the
\* tenth reveal is within the horizon); whenever it is 10, exactly ten
\* Reveals have returned a fragment; and once 10 it stays 10.
C18_TenRevealsThenDone ==
    /\ ReachesTen
    /\ [][\A d \in Devices :
             /\ PersistedDay(d)' = TotalDays => Len(log'[d]) = TotalDays
             /\ PersistedDay(d) = TotalDays => PersistedDay(d)' = TotalDays]_vars

\* C19: on the same record and at the same instant, GetStatus reports
\* can_reveal exactly when Reveal returns a fragment, and is_complete
\* exactly when Reveal is rejected with AlreadyComplete.
C19_StatusAgreesWithReveal ==
    \A p \in Procs :
        /\ AnsweredStatus(p) =>
              LET v == RevealDecision(proc[p].user[1], proc[p].now) IN
                  /\ proc[p].resp.can_reveal <=> (v.kind = "Fragment")
                  /\ proc[p].resp.is_complete <=> (v.kind = "AlreadyComplete")
        /\ (proc[p].op = "reveal" /\ proc[p].pc \in {"update", "done"}) =>
              LET s == StatusView(proc[p].user[1], proc[p].now) IN
                  /\ s.can_reveal <=> (proc[p].resp.kind = "Fragment")
                  /\ s.is_complete <=> (proc[p].resp.kind = "AlreadyComplete")

\* A Reveal has been rejected for a complete device whose last reveal is
\* less than 24 hours old.
C19_Witness ==
    \E p \in Procs :
        /\ AnsweredReveal(p)
        /\ proc[p].user[1].current_day = TotalDays
        /\ proc[p].now < proc[p].user[1].last_reveal_time + Cooldown
        /\ proc[p].resp.kind = "AlreadyComplete"

====
